---- MODULE Spec2Model ----
(***************************************************************************)
(* A model of packages/esbuild-plugin-pnp/sources/index.ts: the esbuild    *)
(* plugin that resolves imports through the Plug'n'Play API.               *)
(*                                                                         *)
(* Representation of JavaScript values:                                    *)
(*  - strings the plugin inspects character by character (the specifier,   *)
(*    the externals, importer, resolveDir, baseDir) are sequences of       *)
(*    one-character strings;                                               *)
(*  - paths handed back by the PnP API are opaque to the plugin and are    *)
(*    TLA+ strings; Null is the JavaScript null among them;                *)
(*  - objects are records; NullObj is null among them and Undefined is     *)
(*    undefined among them (an absent error, the hook returning nothing);  *)
(*  - an object literal is the record with exactly its keys, so            *)
(*    {external: true} has no errors, warnings or watchFiles field;        *)
(*  - External = string | {prefix, suffix} is a record tagged by the       *)
(*    outcome of the `typeof external === "object"` test.                  *)
(***************************************************************************)
EXTENDS Integers, Sequences, FiniteSets, TLC

VARIABLES
  initialOptions,     \* build.initialOptions: external, platform, conditions
  findPnpApiDefined,  \* typeof require("module").findPnpApi !== "undefined"
  phase,              \* "constructed", "noop", "ready", "returned", "probed"
  registered,         \* the hooks setup() registered on the build
  externals,          \* closure of setup(): the compiled externals
  isPlatformNode,     \* closure of setup()
  conditionsDefault,  \* closure of setup()
  conditionsImport,   \* closure of setup()
  conditionsRequire,  \* closure of setup()
  args,               \* the OnResolveArgs of the last hook invocation
  calls,              \* the calls that invocation made, in order, with what they returned
  result,             \* what that invocation returned to esbuild
  probe,              \* the path last handed to isExternal on its own
  matched             \* what isExternal returned for it

vars == <<initialOptions, findPnpApiDefined, phase, registered, externals,
          isPlatformNode, conditionsDefault, conditionsImport, conditionsRequire,
          args, calls, result, probe, matched>>

(***************************************************************************)
(* Bounds and input pools                                                  *)
(***************************************************************************)
\* longest entry of build.initialOptions.external, in characters
MaxLen == 1
\* longest build.initialOptions.external list
MaxExternals == 2

Chars == {"a", "/", ".", "*"}

Null == "<null>"
Undef == "<undefined>"
NullObj == [null |-> TRUE]
Undefined == [undefined |-> TRUE]

RECURSIVE StringsOfLen(_)
StringsOfLen(n) ==
  IF n = 0 THEN {<<>>}
  ELSE {Append(s, c) : s \in StringsOfLen(n - 1), c \in Chars}

StringsUpTo(n) == UNION {StringsOfLen(k) : k \in 0..n}

StarCount(s) == Cardinality({i \in DOMAIN s : s[i] = "*"})

RECURSIVE ListsOfLen(_, _)
ListsOfLen(S, n) ==
  IF n = 0 THEN {<<>>}
  ELSE {Append(l, s) : l \in ListsOfLen(S, n - 1), s \in S}

ListsUpTo(S, n) == UNION {ListsOfLen(S, k) : k \in 0..n}

\* esbuild validates `external` before plugins run: at most one wildcard each
ExternalStrings == {s \in StringsUpTo(MaxLen) : s # <<>> /\ StarCount(s) <= 1}

Str_sub_path == <<"/", "s", "u", "b", "/", "p", "a", "t", "h">>
Str_other == <<"o", "t", "h", "e", "r">>
Str_pnpapi == <<"p", "n", "p", "a", "p", "i">>

(***************************************************************************)
(* String primitives of JavaScript used by the plugin                      *)
(***************************************************************************)
\* String.prototype.indexOf of one character: 0-based, -1 when absent
IndexOf(s, c) ==
  IF \E i \in DOMAIN s : s[i] = c
  THEN (CHOOSE i \in DOMAIN s : s[i] = c /\ \A j \in 1..(i - 1) : s[j] # c) - 1
  ELSE -1

\* String.prototype.slice(from, to) with 0-based, in-range arguments
Slice(s, from, to) == SubSeq(s, from + 1, to)

StartsWith(s, p) == Len(s) >= Len(p) /\ SubSeq(s, 1, Len(p)) = p

EndsWith(s, p) == Len(s) >= Len(p) /\ SubSeq(s, Len(s) - Len(p) + 1, Len(s)) = p

(***************************************************************************)
(* parseExternals, isExternal                                              *)
(***************************************************************************)
parseExternal(external) ==
  LET wildcardIdx == IndexOf(external, "*") IN
  IF wildcardIdx # -1
  THEN [object |-> TRUE,
        prefix |-> Slice(external, 0, wildcardIdx),
        suffix |-> Slice(external, wildcardIdx + 1, Len(external))]
  ELSE [object |-> FALSE, string |-> external]

parseExternals(list) == [i \in DOMAIN list |-> parseExternal(list[i])]

matchesWildcard(path, external) ==
  /\ Len(path) >= Len(external.prefix) + Len(external.suffix)
  /\ StartsWith(path, external.prefix)
  /\ EndsWith(path, external.suffix)

isBarePackage(external) ==
  /\ ~StartsWith(external, <<"/">>)
  /\ ~StartsWith(external, <<".", "/">>)
  /\ ~StartsWith(external, <<".", ".", "/">>)
  /\ external # <<".">>
  /\ external # <<".", ".">>

matchesDropSlash(path, external) ==
  \/ path = external
  \/ isBarePackage(external) /\ StartsWith(path, external)

matchesString(path, external) ==
  \/ path = external
  \/ isBarePackage(external) /\ StartsWith(path, external \o <<"/">>)

RECURSIVE isExternalFrom(_, _, _)
isExternalFrom(path, list, i) ==
  IF i > Len(list) THEN FALSE
  ELSE IF list[i].object
       THEN IF matchesWildcard(path, list[i]) THEN TRUE
            ELSE isExternalFrom(path, list, i + 1)
       ELSE IF matchesString(path, list[i].string) THEN TRUE
            ELSE isExternalFrom(path, list, i + 1)

isExternal(path, list) == isExternalFrom(path, list, 1)

(***************************************************************************)
(* Module constants and plugin options (pnpPlugin() called with defaults)  *)
(***************************************************************************)
defaultExtensions == <<".tsx", ".ts", ".jsx", ".mjs", ".cjs", ".js", ".css", ".json">>

\* baseDir = process.cwd()
baseDir == <<"w">>

extensions == defaultExtensions

(***************************************************************************)
(* setup(): platform and the three condition sets                          *)
(***************************************************************************)
\* build.initialOptions.platform ?? `browser`
effectivePlatform(options) ==
  IF options.platform = Undef THEN "browser" ELSE options.platform

buildConditionsDefault(options) ==
  LET platform == effectivePlatform(options) IN
  (options.conditions \cup {"default"})
    \cup (IF platform = "browser" \/ platform = "node" THEN {platform} ELSE {})

buildConditionsImport(default) == default \cup {"import"}

buildConditionsRequireAddsImport(default) == default \cup {"import"}

buildConditionsRequire(default) == default \cup {"require"}

(***************************************************************************)
(* The onResolve hook, piece by piece                                      *)
(***************************************************************************)
selectConditionsNoStatic(kind) ==
  IF kind = "dynamic-import" THEN conditionsImport
  ELSE IF kind = "require-call" \/ kind = "require-resolve" THEN conditionsRequire
  ELSE conditionsDefault

selectConditions(kind) ==
  IF kind = "dynamic-import" \/ kind = "import-statement" THEN conditionsImport
  ELSE IF kind = "require-call" \/ kind = "require-resolve" THEN conditionsRequire
  ELSE conditionsDefault

\* an empty string is falsy
effectiveImporter(a) ==
  IF a.resolveDir # <<>> THEN a.resolveDir \o <<"/">>
  ELSE IF a.importer # <<>> THEN a.importer
  ELSE baseDir \o <<"/">>

\* the try/catch around pnpApi.resolveRequest: `outcome` is what the call did,
\* [returns |-> path or Null] or [throws |-> error]
tryResolveKeepsError(outcome) ==
  IF "throws" \in DOMAIN outcome
  THEN [path |-> Null, error |-> outcome.throws]
  ELSE [path |-> outcome.returns, error |-> [message |-> "stale"]]

tryResolveRethrows(outcome) ==
  IF "throws" \in DOMAIN outcome
  THEN [path |-> Null, error |-> Undefined, escaped |-> outcome.throws]
  ELSE [path |-> outcome.returns, error |-> Undefined]

tryResolve(outcome) ==
  IF "throws" \in DOMAIN outcome
  THEN [path |-> Null, error |-> outcome.throws]
  ELSE [path |-> outcome.returns, error |-> Undefined]

\* `if (path)`: null and the empty string are falsy
truthy(path) == path # Null /\ path # ""

\* pnpApi.resolveVirtual?.(path) ?? path; pnp.resolveVirtual is "absent" when the
\* API has no such method, else what the method returns for this path
virtualOrPath(path, pnp) ==
  IF pnp.resolveVirtual = "absent" \/ pnp.resolveVirtual = Null
  THEN path
  ELSE pnp.resolveVirtual

isSoft(pnp) ==
  /\ pnp.locator # NullObj
  /\ pnp.info # NullObj
  /\ pnp.info.linkType = "SOFT"

watchFilesAlwaysVirtual(path, pnp) ==
  <<pnp.manifest>> \o
    (IF truthy(path) THEN <<virtualOrPath(path, pnp)>> ELSE <<>>)

watchFilesVirtualFirst(path, pnp) ==
  (IF truthy(path) /\ isSoft(pnp) THEN <<virtualOrPath(path, pnp)>> ELSE <<>>)
    \o <<pnp.manifest>>

computeWatchFiles(path, pnp) ==
  <<pnp.manifest>> \o
    (IF truthy(path) /\ isSoft(pnp) THEN <<virtualOrPath(path, pnp)>> ELSE <<>>)

(***************************************************************************)
(* defaultOnResolve                                                        *)
(***************************************************************************)
problemsOf(error) == IF error # Undefined THEN <<[text |-> error.message]>> ELSE <<>>

defaultOnResolveAllErrors(a, params) ==
  IF params.resolvedPath # Null
  THEN [namespace |-> "pnp", path |-> params.resolvedPath, watchFiles |-> params.watchFiles]
  ELSE [external |-> TRUE, errors |-> problemsOf(params.error),
        watchFiles |-> params.watchFiles]

defaultOnResolve(a, params) ==
  IF params.resolvedPath # Null
  THEN [namespace |-> "pnp", path |-> params.resolvedPath, watchFiles |-> params.watchFiles]
  ELSE IF a.kind \in {"require-call", "require-resolve", "dynamic-import"}
  THEN [external |-> TRUE, warnings |-> problemsOf(params.error),
        watchFiles |-> params.watchFiles]
  ELSE [external |-> TRUE, errors |-> problemsOf(params.error),
        watchFiles |-> params.watchFiles]

(***************************************************************************)
(* The PnP API as the hook sees it during one invocation.  pnp is          *)
(*   [owned, resolve, manifest, locator, info, resolveVirtual]:            *)
(* whether findPnpApi(effectiveImporter) returns an API, what              *)
(* resolveRequest(specifier, ...) does, what resolveRequest("pnpapi",      *)
(* null) returns (the runtime answers this request with its own path),     *)
(* and what the lookups on the resolved path return.                       *)
(***************************************************************************)
Kinds == {"entry-point", "import-statement", "require-call", "dynamic-import",
          "require-resolve", "url-token"}

Platforms == {Undef, "browser", "node", "neutral"}

UserConditions == {"import", "require"}

ResolvedPaths == {"/store/pkgA/util.js", "/store/pkgB/index.js"}

Errors == {[message |-> "not found"], [message |-> "not exported"]}

ManifestPath == "/.pnp.cjs"

VirtualPath == "/store/virtual"

Locator == [name |-> "pkg", reference |-> "workspace:."]

ResolveOutcomes ==
  {[returns |-> p] : p \in ResolvedPaths \cup {Null}} \cup {[throws |-> e] : e \in Errors}

PnpBehaviours ==
  [owned : BOOLEAN,
   resolve : ResolveOutcomes,
   manifest : {ManifestPath},
   locator : {NullObj, Locator},
   info : {NullObj, [linkType |-> "HARD"], [linkType |-> "SOFT"]},
   resolveVirtual : {"absent", Null, VirtualPath}]

OneChar == {<<c>> : c \in Chars}

\* the specifiers and the externals lists of the hook's runs
Specifiers == (StringsUpTo(MaxLen) \ {<<>>}) \cup {<<"a", "/">>}

HookExternals == {<<>>} \cup {<<s>> : s \in OneChar}

Importers == {<<>>, <<"i">>}

ResolveDirs == {<<>>, <<"d">>}

OnResolveArgs == [path : Specifiers, kind : Kinds, importer : Importers, resolveDir : ResolveDirs]

NoArgs == [none |-> TRUE]

Call(fn, arg, ret) == [fn |-> fn, arg |-> arg, ret |-> ret]

(***************************************************************************)
(* The hook: lines 137-186.  hook(a, pnp) is [calls, result]: the calls    *)
(* the invocation makes, in order, and what it returns.  An exception      *)
(* escaping the hook is the result [threw |-> error].                      *)
(***************************************************************************)
externalResult == [calls |-> <<>>, result |-> [external |-> TRUE]]

notOwnedAsExternal(importer) ==
  [calls |-> <<Call("findPnpApi", importer, Null)>>, result |-> [external |-> TRUE]]

notOwned(importer) ==
  [calls |-> <<Call("findPnpApi", importer, Null)>>, result |-> Undefined]

lookups(path, pnp) ==
  IF ~truthy(path) THEN <<>>
  ELSE <<Call("findPackageLocator", path, pnp.locator)>> \o
       (IF pnp.locator = NullObj THEN <<>>
        ELSE <<Call("getPackageInformation", pnp.locator, pnp.info)>> \o
             (IF isSoft(pnp) /\ pnp.resolveVirtual # "absent"
              THEN <<Call("resolveVirtual", path, pnp.resolveVirtual)>>
              ELSE <<>>))

owned(a, importer, pnp) ==
  LET conditions == selectConditions(a.kind)
      attempt == tryResolve(pnp.resolve)
      request == [request |-> a.path, issuer |-> importer,
                  opts |-> [conditions |-> conditions,
                            considerBuiltins |-> isPlatformNode,
                            extensions |-> extensions]]
      first == <<Call("findPnpApi", importer, "pnpApi"),
                 Call("resolveRequest", request, pnp.resolve)>>
  IN
  IF "escaped" \in DOMAIN attempt  \* an exception the try statement let through
  THEN [calls |-> first, result |-> [threw |-> attempt.escaped]]
  ELSE
    LET watchFiles == computeWatchFiles(attempt.path, pnp)
        params == [resolvedPath |-> attempt.path, error |-> attempt.error,
                   watchFiles |-> watchFiles]
        final == defaultOnResolve(a, params)
    IN
    [calls |-> first
                \o <<Call("resolveRequest", [request |-> Str_pnpapi, issuer |-> Null],
                          pnp.manifest)>>
                \o lookups(attempt.path, pnp)
                \o <<Call("onResolve", [args |-> a, params |-> params], final)>>,
     result |-> final]

hookLookupFirst(a, pnp) ==
  LET importer == effectiveImporter(a) IN
  IF ~pnp.owned THEN notOwned(importer)
  ELSE IF isExternal(a.path, externals) THEN
    [calls |-> <<Call("findPnpApi", importer, "pnpApi")>>, result |-> [external |-> TRUE]]
  ELSE owned(a, importer, pnp)

hook(a, pnp) ==
  IF isExternal(a.path, externals) THEN externalResult
  ELSE
    LET importer == effectiveImporter(a) IN
    IF ~pnp.owned THEN notOwned(importer)
    ELSE owned(a, importer, pnp)

(***************************************************************************)
(* Actions                                                                 *)
(***************************************************************************)
InitWith(externalLists) ==
  /\ initialOptions \in [external : externalLists,
                         platform : Platforms,
                         conditions : SUBSET UserConditions]
  /\ findPnpApiDefined \in BOOLEAN
  /\ phase = "constructed"
  /\ registered = {}
  /\ externals = <<>>
  /\ isPlatformNode = FALSE
  /\ conditionsDefault = {}
  /\ conditionsImport = {}
  /\ conditionsRequire = {}
  /\ args = NoArgs
  /\ calls = <<>>
  /\ result = Undefined
  /\ probe = <<>>
  /\ matched = FALSE

Init == InitWith(HookExternals)

\* setup(build) when findPnpApi is not defined: nothing is registered
SetupNoPnp ==
  /\ phase = "constructed"
  /\ ~findPnpApiDefined
  /\ phase' = "noop"
  /\ UNCHANGED <<initialOptions, findPnpApiDefined, registered, externals,
                 isPlatformNode, conditionsDefault, conditionsImport,
                 conditionsRequire, args, calls, result, probe, matched>>

\* setup(build)
Setup ==
  /\ phase = "constructed"
  /\ findPnpApiDefined
  /\ externals' = parseExternals(initialOptions.external)
  /\ isPlatformNode' = (effectivePlatform(initialOptions) = "node")
  /\ conditionsDefault' = buildConditionsDefault(initialOptions)
  /\ conditionsImport' = buildConditionsImport(buildConditionsDefault(initialOptions))
  /\ conditionsRequire' = buildConditionsRequire(buildConditionsDefault(initialOptions))
  /\ registered' = {"onResolve", "onLoad"}
  /\ phase' = "ready"
  /\ UNCHANGED <<initialOptions, findPnpApiDefined, args, calls, result, probe, matched>>

\* esbuild calls the registered onResolve callback
OnResolve ==
  /\ phase = "ready"
  /\ "onResolve" \in registered
  /\ \E a \in OnResolveArgs, pnp \in PnpBehaviours :
       /\ args' = a
       /\ calls' = hook(a, pnp).calls
       /\ result' = hook(a, pnp).result
  /\ phase' = "returned"
  /\ UNCHANGED <<initialOptions, findPnpApiDefined, registered, externals,
                 isPlatformNode, conditionsDefault, conditionsImport,
                 conditionsRequire, probe, matched>>

\* esbuild takes the result; the plugin keeps nothing of the invocation
Consume ==
  /\ phase = "returned"
  /\ phase' = "ready"
  /\ args' = NoArgs
  /\ calls' = <<>>
  /\ result' = Undefined
  /\ UNCHANGED <<initialOptions, findPnpApiDefined, registered, externals,
                 isPlatformNode, conditionsDefault, conditionsImport,
                 conditionsRequire, probe, matched>>

Next == SetupNoPnp \/ Setup \/ OnResolve \/ Consume

Spec == Init /\ [][Next]_vars

(***************************************************************************)
(* isExternal on its own: the externals are drawn from every list of at    *)
(* most MaxExternals entries of at most MaxLen characters, and the paths   *)
(* from the entries, the entries followed by "/sub/path" and by "other".   *)
(***************************************************************************)
InitExternals ==
  /\ InitWith(ListsUpTo(ExternalStrings, MaxExternals))
  /\ initialOptions.platform = Undef
  /\ initialOptions.conditions = {}
  /\ findPnpApiDefined

ProbePaths(list) ==
  StringsUpTo(MaxLen)
    \cup {list[i] : i \in DOMAIN list}
    \cup {list[i] \o Str_sub_path : i \in DOMAIN list}
    \cup {list[i] \o Str_other : i \in DOMAIN list}

IsExternal ==
  /\ phase = "ready"
  /\ \E p \in ProbePaths(initialOptions.external) :
       /\ probe' = p
       /\ matched' = isExternal(p, externals)
  /\ phase' = "probed"
  /\ UNCHANGED <<initialOptions, findPnpApiDefined, registered, externals,
                 isPlatformNode, conditionsDefault, conditionsImport,
                 conditionsRequire, args, calls, result>>

NextExternals == Setup \/ IsExternal

SpecExternals == InitExternals /\ [][NextExternals]_vars

(***************************************************************************)
(* Reading one invocation's record                                         *)
(***************************************************************************)
Returned == phase = "returned"

SetupDone == phase \in {"ready", "returned", "probed"}

CallsTo(fn) == SelectSeq(calls, LAMBDA c : c.fn = fn)

\* pnpApi.resolveRequest(args.path, effectiveImporter, {...})
SpecifierCalls == SelectSeq(CallsTo("resolveRequest"), LAMBDA c : "opts" \in DOMAIN c.arg)

\* pnpApi.resolveRequest(`pnpapi`, null)
ManifestCalls == SelectSeq(CallsTo("resolveRequest"), LAMBDA c : "opts" \notin DOMAIN c.arg)

ClassifierCalls == CallsTo("onResolve")

ProviderAbsent ==
  Len(CallsTo("findPnpApi")) = 1 /\ CallsTo("findPnpApi")[1].ret = Null

ProviderOwns ==
  Len(CallsTo("findPnpApi")) = 1 /\ CallsTo("findPnpApi")[1].ret # Null

Threw(c) == "throws" \in DOMAIN c.ret

ReturnedPath(c) == "returns" \in DOMAIN c.ret /\ c.ret.returns # Null

ReturnedNull(c) == "returns" \in DOMAIN c.ret /\ c.ret.returns = Null

Range(seq) == {seq[i] : i \in DOMAIN seq}

WarningKinds == {"require-call", "require-resolve", "dynamic-import"}

(***************************************************************************)
(* Claims                                                                  *)
(***************************************************************************)

\* C1: a request whose specifier matches the compiled externals returns exactly
\* {external: true} (no errors, warnings or watchFiles) whatever its kind,
\* importer and resolveDir, and the invocation calls neither the provider
\* (findPnpApi, resolveRequest, the package lookups) nor the classifier.
C1_ExternalShortCircuit ==
  (Returned /\ isExternal(args.path, externals)) =>
    /\ result = [external |-> TRUE]
    /\ calls = <<>>

C1_Witness ==
  /\ Returned
  /\ isExternal(args.path, externals)
  /\ initialOptions.external = << <<"*">> >>
  /\ args.kind = "import-statement"
  /\ args.resolveDir # <<>>
  /\ result = [external |-> TRUE]

\* C2: a non-external request whose provider lookup returns null returns
\* undefined, and the invocation makes no resolveRequest call (specifier or
\* manifest), no package lookup and no classifier call.
C2_NotOwnedDelegates ==
  (Returned /\ ~isExternal(args.path, externals) /\ ProviderAbsent) =>
    /\ result = Undefined
    /\ Len(calls) = 1
    /\ CallsTo("resolveRequest") = <<>>
    /\ CallsTo("findPackageLocator") = <<>>
    /\ CallsTo("getPackageInformation") = <<>>
    /\ ClassifierCalls = <<>>

C2_Witness ==
  /\ Returned
  /\ ~isExternal(args.path, externals)
  /\ ProviderAbsent
  /\ initialOptions.external # <<>>
  /\ result = Undefined

\* C3: when the classifier is handed a failure (resolvedPath null, error
\* present) the default classifier returns external: true with the watch set,
\* and the failure message is the single warning (and no errors key) for
\* require-call, require-resolve and dynamic-import, and the single error (and
\* no warnings key) for every other kind.
C3_FailureByKind ==
  Returned =>
    \A i \in DOMAIN ClassifierCalls :
      LET c == ClassifierCalls[i]
          p == c.arg.params
          problem == <<[text |-> p.error.message]>>
      IN
      (p.resolvedPath = Null /\ p.error # Undefined) =>
        /\ result = c.ret
        /\ DOMAIN c.ret =
             {"external", "watchFiles",
              IF c.arg.args.kind \in WarningKinds THEN "warnings" ELSE "errors"}
        /\ c.ret.external = TRUE
        /\ c.ret.watchFiles = p.watchFiles
        /\ IF c.arg.args.kind \in WarningKinds
           THEN c.ret.warnings = problem
           ELSE c.ret.errors = problem

C3_Witness ==
  /\ Returned
  /\ Len(ClassifierCalls) = 1
  /\ ClassifierCalls[1].arg.params.error = [message |-> "not found"]
  /\ args.kind = "dynamic-import"
  /\ result = [external |-> TRUE, warnings |-> <<[text |-> "not found"]>>,
               watchFiles |-> <<ManifestPath>>]

\* C4 as stated: whatever resolveRequest does (returns a path, returns null,
\* throws), the outcome handed to the classifier has exactly one of
\* resolvedPath and error present.
C4_ExactlyOnePresent ==
  Returned =>
    \A i \in DOMAIN ClassifierCalls :
      LET p == ClassifierCalls[i].arg.params IN
      (p.resolvedPath # Null) # (p.error # Undefined)

\* C4 as amended: the outcome never has both present; it has exactly one
\* present when resolveRequest returned a path (resolvedPath is that path) or
\* threw (error is what was thrown), and both absent when resolveRequest
\* returned null.
C4_NeverBothAbsentOnlyOnNull ==
  Returned =>
    \A i \in DOMAIN ClassifierCalls :
      LET p == ClassifierCalls[i].arg.params IN
      /\ Len(SpecifierCalls) = 1
      /\ ~(p.resolvedPath # Null /\ p.error # Undefined)
      /\ ReturnedPath(SpecifierCalls[1]) =>
           p.resolvedPath = SpecifierCalls[1].ret.returns /\ p.error = Undefined
      /\ Threw(SpecifierCalls[1]) =>
           p.resolvedPath = Null /\ p.error = SpecifierCalls[1].ret.throws
      /\ ReturnedNull(SpecifierCalls[1]) =>
           p.resolvedPath = Null /\ p.error = Undefined

C4_Witness ==
  /\ Returned
  /\ Len(ClassifierCalls) = 1
  /\ Len(SpecifierCalls) = 1
  /\ ReturnedNull(SpecifierCalls[1])
  /\ ClassifierCalls[1].arg.params.resolvedPath = Null
  /\ ClassifierCalls[1].arg.params.error = Undefined
  /\ result = [external |-> TRUE, errors |-> <<>>, watchFiles |-> <<ManifestPath>>]

\* C5: when resolveRequest for the specifier throws, nothing escapes the hook;
\* the hook then resolves the manifest path, makes no package-locator lookup,
\* and calls the classifier exactly once with resolvedPath null, error the
\* thrown failure and the watch set [manifestPath].
C5_ThrowIsCaptured ==
  (Returned /\ Len(SpecifierCalls) >= 1 /\ Threw(SpecifierCalls[1])) =>
    /\ "threw" \notin DOMAIN result
    /\ Len(SpecifierCalls) = 1
    /\ Len(ManifestCalls) = 1
    /\ CallsTo("findPackageLocator") = <<>>
    /\ CallsTo("getPackageInformation") = <<>>
    /\ Len(ClassifierCalls) = 1
    /\ calls = <<CallsTo("findPnpApi")[1], SpecifierCalls[1], ManifestCalls[1],
                 ClassifierCalls[1]>>
    /\ ClassifierCalls[1].arg.params =
         [resolvedPath |-> Null,
          error |-> SpecifierCalls[1].ret.throws,
          watchFiles |-> <<ManifestCalls[1].ret>>]

C5_Witness ==
  /\ Returned
  /\ Len(SpecifierCalls) = 1
  /\ Threw(SpecifierCalls[1])
  /\ SpecifierCalls[1].ret.throws = [message |-> "not exported"]
  /\ Len(ClassifierCalls) = 1
  /\ ClassifierCalls[1].arg.params.error = [message |-> "not exported"]

\* the invocation resolved the specifier to a path and the PnP API reported
\* linkType SOFT for the package that owns it
SoftCase ==
  /\ Returned
  /\ Len(SpecifierCalls) = 1
  /\ ReturnedPath(SpecifierCalls[1])
  /\ Len(CallsTo("getPackageInformation")) = 1
  /\ CallsTo("getPackageInformation")[1].ret = [linkType |-> "SOFT"]

\* the invocation resolved the specifier to a path whose package is HARD-linked,
\* or has no locator, or has no package information
HardCase ==
  /\ Returned
  /\ Len(SpecifierCalls) = 1
  /\ ReturnedPath(SpecifierCalls[1])
  /\ Len(CallsTo("findPackageLocator")) = 1
  /\ \/ CallsTo("findPackageLocator")[1].ret = NullObj
     \/ /\ Len(CallsTo("getPackageInformation")) = 1
        /\ CallsTo("getPackageInformation")[1].ret \in {NullObj, [linkType |-> "HARD"]}

\* C6 as stated: in the SOFT case the watch set holds the manifest path first
\* and also what resolveVirtual(path) returned.
C6_WatchesResolveVirtual ==
  SoftCase =>
    LET w == ClassifierCalls[1].arg.params.watchFiles IN
    /\ w[1] = ManifestCalls[1].ret
    /\ Len(CallsTo("resolveVirtual")) = 1
    /\ CallsTo("resolveVirtual")[1].ret \in Range(w)

\* C6 as amended: in the SOFT case the watch set is [manifestPath, v], where v
\* is what resolveVirtual(path) returned when the API has resolveVirtual and it
\* returned a path, and the resolved path itself otherwise.
C6_WatchesVirtualOrPath ==
  SoftCase =>
    LET w == ClassifierCalls[1].arg.params.watchFiles
        path == SpecifierCalls[1].ret.returns
        rv == CallsTo("resolveVirtual")
    IN
    /\ Len(ClassifierCalls) = 1
    /\ Len(ManifestCalls) = 1
    /\ Len(rv) <= 1
    /\ w = <<ManifestCalls[1].ret,
             IF Len(rv) = 1 /\ rv[1].ret # Null THEN rv[1].ret ELSE path>>
    /\ result.watchFiles = w

C6_Witness ==
  /\ SoftCase
  /\ Len(CallsTo("resolveVirtual")) = 1
  /\ CallsTo("resolveVirtual")[1].ret = VirtualPath
  /\ result.watchFiles = <<ManifestPath, VirtualPath>>

\* C7: in the HARD case (or no locator, or no package information), for every
\* import kind, the result is exactly {namespace: "pnp", path: the resolved
\* path, watchFiles: [manifestPath]}.
C7_HardLinkedResult ==
  HardCase =>
    /\ Len(ManifestCalls) = 1
    /\ result = [namespace |-> "pnp",
                 path |-> SpecifierCalls[1].ret.returns,
                 watchFiles |-> <<ManifestCalls[1].ret>>]

C7_Witness ==
  /\ HardCase
  /\ args.kind = "import-statement"
  /\ Len(CallsTo("getPackageInformation")) = 1
  /\ CallsTo("getPackageInformation")[1].ret = [linkType |-> "HARD"]
  /\ result = [namespace |-> "pnp", path |-> "/store/pkgA/util.js",
               watchFiles |-> <<ManifestPath>>]

\* C8: the conditions passed to resolveRequest depend on the kind alone: the
\* default set with "import" for dynamic-import and import-statement, the
\* default set with "require" for require-call and require-resolve, the
\* default set for every other kind; considerBuiltins is platform = "node".
C8_ConditionsByKind ==
  (Returned /\ Len(SpecifierCalls) >= 1) =>
    LET opts == SpecifierCalls[1].arg.opts IN
    /\ opts.conditions =
         IF args.kind \in {"dynamic-import", "import-statement"}
           THEN conditionsDefault \cup {"import"}
         ELSE IF args.kind \in {"require-call", "require-resolve"}
           THEN conditionsDefault \cup {"require"}
         ELSE conditionsDefault
    /\ conditionsDefault =
         (initialOptions.conditions \cup {"default"}) \cup
           (IF initialOptions.platform \in {Undef, "browser"} THEN {"browser"}
            ELSE IF initialOptions.platform = "node" THEN {"node"} ELSE {})
    /\ opts.considerBuiltins = (initialOptions.platform = "node")

C8_Witness ==
  /\ Returned
  /\ Len(SpecifierCalls) = 1
  /\ args.kind = "import-statement"
  /\ initialOptions.platform = "node"
  /\ initialOptions.conditions = {}
  /\ SpecifierCalls[1].arg.opts.conditions = {"default", "node", "import"}
  /\ SpecifierCalls[1].arg.opts.considerBuiltins

PairwiseDistinct ==
  /\ conditionsDefault # conditionsImport
  /\ conditionsDefault # conditionsRequire
  /\ conditionsImport # conditionsRequire

\* C9 as stated: whatever the user-supplied conditions, when the platform is
\* given the three condition sets built by setup() are pairwise distinct.
C9_SetsPairwiseDistinct ==
  (SetupDone /\ initialOptions.platform # Undef) => PairwiseDistinct

\* C9 as amended: the three sets are pairwise distinct exactly when the
\* user-supplied conditions hold neither "import" nor "require" (whatever the
\* platform): a user-supplied "import" makes the import set equal the default
\* set, a user-supplied "require" makes the require set equal the default set.
C9_DistinctUnlessUserSupplied ==
  SetupDone =>
    /\ conditionsImport = conditionsDefault \cup {"import"}
    /\ conditionsRequire = conditionsDefault \cup {"require"}
    /\ (conditionsDefault = conditionsImport) <=> ("import" \in initialOptions.conditions)
    /\ (conditionsDefault = conditionsRequire) <=> ("require" \in initialOptions.conditions)
    /\ (conditionsImport = conditionsRequire) <=>
         ({"import", "require"} \subseteq initialOptions.conditions)
    /\ PairwiseDistinct <=> (initialOptions.conditions \cap {"import", "require"} = {})

C9_Witness ==
  /\ SetupDone
  /\ initialOptions.platform = "node"
  /\ initialOptions.conditions = {}
  /\ conditionsDefault = {"default", "node"}
  /\ conditionsImport = {"default", "node", "import"}
  /\ conditionsRequire = {"default", "node", "require"}

\* a bare package name, in the claim's words: no `*`, no leading `/`, `./` or
\* `../`, and neither `.` nor `..`
BareName(s) ==
  /\ \A i \in DOMAIN s : s[i] # "*"
  /\ ~StartsWith(s, <<"/">>)
  /\ ~StartsWith(s, <<".", "/">>)
  /\ ~StartsWith(s, <<".", ".", "/">>)
  /\ s \notin {<<".">>, <<".", ".">>}

\* C10 as stated: for every externals list and every bare entry pkg of it,
\* isExternal is true of pkg + "/sub/path" and false of pkg + "other".
C10_SubpathYesSiblingNo ==
  phase = "probed" =>
    \A i \in DOMAIN initialOptions.external :
      LET pkg == initialOptions.external[i] IN
      BareName(pkg) =>
        /\ probe = pkg \o Str_sub_path => matched
        /\ probe = pkg \o Str_other => ~matched

\* C10 as amended: for every externals list and every bare entry pkg of it,
\* isExternal is true of pkg + "/sub/path"; it is false of pkg + "other"
\* unless another entry of the list matches that path by itself (pkg's own
\* entry never does).
C10_SiblingOnlyByOtherEntry ==
  phase = "probed" =>
    \A i \in DOMAIN initialOptions.external :
      LET pkg == initialOptions.external[i] IN
      BareName(pkg) =>
        /\ probe = pkg \o Str_sub_path => matched
        /\ probe = pkg \o Str_other =>
             (matched <=>
                \E j \in DOMAIN initialOptions.external :
                  /\ initialOptions.external[j] # pkg
                  /\ isExternal(probe, <<externals[j]>>))

C10_Witness ==
  /\ phase = "probed"
  /\ initialOptions.external = << <<"/">>, <<"a">> >>
  /\ probe = <<"a">> \o Str_other
  /\ ~matched

====
